---- MODULE Spec2Model ----
(***************************************************************************)
(* A model of neti (src/neti.py): the overlay-address lease protocol of    *)
(* Registry.register against a ZooKeeper ensemble, the party joins and the *)
(* children watch of Registry.run, and the rule synthesis of IPtables.     *)
(*                                                                         *)
(* Every ZooKeeper request (get, set, create, ensure_path, get_children)   *)
(* is one atomic step: the ensemble linearizes requests, and an agent's    *)
(* position between two requests is its pc.                                *)
(***************************************************************************)
EXTENDS Integers, Sequences, FiniteSets, TLC

\* ------------------------------------------------------------------ bounds

\* How many times, in all, an agent process is killed and started again.
MaxRestarts == 1
\* How many ZookeeperErrors, in all, the ensembles raise inside run().
MaxErrors == 1

\* --------------------------------------------------------------- constants

MAX_IP_TRIES == 5

\* The two realms; each has its own ensemble (Connection.__init__).
Realms == {"ec2", "vpc"}

\* The agent processes of the model, and the instance-ids the metadata
\* service may hand them.  Two agents may carry the same instance-id (two
\* agents started on one host).
Agents == {"a1", "a2", "a3"}
InstanceIds == {"i-1", "i-2", "i-3"}

\* IPv4 addresses are numbers; AddrStr is str() of an address and AddrOf is
\* IPv4Address(unicode(s)) of a node name.  Eight addresses: 10.99.0.0/30
\* and 10.99.0.4/30.
Addrs == 0..7
AddrStr(n) == <<"10.99.0.0", "10.99.0.1", "10.99.0.2", "10.99.0.3",
                "10.99.0.4", "10.99.0.5", "10.99.0.6", "10.99.0.7">>[n + 1]
AddrStrs == {AddrStr(n) : n \in Addrs}
AddrOf(s) == CHOOSE n \in Addrs : AddrStr(n) = s

\* config [vpc] overlay_subnet = 10.99.0.0/30, [ec2] overlay_subnet =
\* 10.99.0.4/30, as IPv4Network: first address and number of addresses.
vpc_overlay_subnet == [base |-> 0, size |-> 4]
ec2_overlay_subnet == [base |-> 4, size |-> 4]

\* IPv4Network.hosts(): every address but the network and the broadcast one.
Hosts(net) == {n \in Addrs : net.base < n /\ n < net.base + net.size - 1}

\* Absent node (NoNodeError on get/set), and the empty data of a node that
\* ensure_path created.
NoNode == "<NoNode>"
EmptyData == ""

VARIABLES
    instance_id,    \* conn.instance_id of each agent
    is_vpc,         \* conn._is_vpc of each agent
    idtoip_path,    \* per ensemble: does the node P/id_to_ip exist
    id_to_ip,       \* per ensemble: data of P/id_to_ip/<instance-id>
    iptoid_path,    \* per ensemble: does the node P/ip_to_id exist
    ip_to_id,       \* per ensemble: data of P/ip_to_id/<ip>
    ip_map,         \* per ensemble: the ephemeral children of P/ip_map
    pc,             \* each agent's position in main / register / run
    ip,             \* the local ip of _find_available_overlay_ip
    retries,        \* the local retries of _find_available_overlay_ip
    overlay_ip,     \* registry.overlay_ip
    error,          \* the exception that ended main(), if any
    party,          \* number of the ShallowParty pair run() last built
    watch,          \* the ChildrenWatch objects of each agent process
    live,           \* the rule program iptables-restore loaded last
    dry_run,        \* args.dry_run
    open_80,        \* config [neti] open_80
    reject_all,     \* config [neti] reject_all
    restarts,       \* process restarts so far
    zkerrors        \* ZookeeperErrors raised so far

vars == <<instance_id, is_vpc, idtoip_path, id_to_ip, iptoid_path, ip_to_id,
          ip_map, pc, ip, retries, overlay_ip, error, party, watch, live,
          dry_run, open_80, reject_all, restarts, zkerrors>>

store == <<idtoip_path, id_to_ip, iptoid_path, ip_to_id, ip_map>>
config == <<instance_id, is_vpc, dry_run, open_80, reject_all>>
\* what update_iptables works on
rules == <<watch, live>>

NoIp == "<none>"
NoError == "<none>"
\* the packet filter before the agent has loaded anything
NoRules == <<"<none>">>

\* Connection.__init__: the local ensemble and the overlay network follow
\* the realm probe.
Local(a) == IF is_vpc[a] THEN "vpc" ELSE "ec2"
Remote(a) == IF is_vpc[a] THEN "ec2" ELSE "vpc"
Network(a) == IF is_vpc[a] THEN vpc_overlay_subnet ELSE ec2_overlay_subnet

\* The deployments the model starts from: three hosts of one realm, or two
\* agents with one instance-id beside a host of the other realm.
Deployments ==
    { [id  |-> [a1 |-> "i-1", a2 |-> "i-2", a3 |-> "i-3"],
       vpc |-> [a1 |-> TRUE, a2 |-> TRUE, a3 |-> TRUE]],
      [id  |-> [a1 |-> "i-1", a2 |-> "i-1", a3 |-> "i-2"],
       vpc |-> [a1 |-> TRUE, a2 |-> TRUE, a3 |-> FALSE]] }

Init ==
    /\ \E d \in Deployments : instance_id = d.id /\ is_vpc = d.vpc
    /\ idtoip_path = [e \in Realms |-> FALSE]
    /\ id_to_ip = [e \in Realms |-> [x \in InstanceIds |-> NoNode]]
    /\ iptoid_path = [e \in Realms |-> FALSE]
    /\ ip_to_id = [e \in Realms |-> [s \in AddrStrs |-> NoNode]]
    /\ ip_map = [e \in Realms |-> {}]
    /\ pc = [a \in Agents |-> "register"]
    /\ ip = [a \in Agents |-> NoIp]
    /\ retries = [a \in Agents |-> 0]
    /\ overlay_ip = [a \in Agents |-> NoIp]
    /\ error = [a \in Agents |-> NoError]
    /\ party = [a \in Agents |-> 0]
    /\ watch = [a \in Agents |-> <<>>]
    /\ live = [a \in Agents |-> NoRules]
    /\ dry_run = FALSE
    /\ open_80 = FALSE
    /\ reject_all = FALSE
    /\ restarts = 0
    /\ zkerrors = 0

\* ---------------------------------------------------------- Registry.register

\* A slip in register: the stored lease is not looked at, every call goes to
\* the pool.
RegisterGetIgnoringLease(a) ==
    /\ pc[a] = "register"
    /\ pc' = [pc EXCEPT ![a] = "choose"]
    /\ UNCHANGED <<config, store, ip, retries, overlay_ip, error, party,
                   rules, restarts, zkerrors>>

\* register, line 197: read id_to_ip/<self>.  A lease that exists is taken
\* as it is; NoNodeError sends the agent to _find_available_overlay_ip.
RegisterGet(a) ==
    /\ pc[a] = "register"
    /\ LET zk_ip == id_to_ip[Local(a)][instance_id[a]] IN
       IF zk_ip # NoNode
       THEN /\ overlay_ip' = [overlay_ip EXCEPT ![a] = zk_ip]
            /\ pc' = [pc EXCEPT ![a] = "set_map"]
       ELSE /\ pc' = [pc EXCEPT ![a] = "choose"]
            /\ UNCHANGED overlay_ip
    /\ UNCHANGED <<config, store, ip, retries, error, party, rules,
                   restarts, zkerrors>>

\* A slip in _choose_overlay_ip: the pool is every address of the network,
\* the network and the broadcast address too.
AvailableIpsOfNetwork(a) ==
    LET used_ips == IF iptoid_path[Local(a)]
                    THEN {AddrOf(s) : s \in {t \in AddrStrs :
                                             ip_to_id[Local(a)][t] # NoNode}}
                    ELSE {}
    IN  {n \in Addrs : Network(a).base <= n
                       /\ n < Network(a).base + Network(a).size} \ used_ips

\* _choose_overlay_ip, lines 130-134: the addresses of the subnet that are
\* no child of ip_to_id (none are taken when ip_to_id itself is absent).
AvailableIps(a) ==
    LET used_ips == IF iptoid_path[Local(a)]
                    THEN {AddrOf(s) : s \in {t \in AddrStrs :
                                             ip_to_id[Local(a)][t] # NoNode}}
                    ELSE {}
    IN  Hosts(Network(a)) \ used_ips

\* A slip in _choose_overlay_ip: no test for an empty pool; the pick is made
\* among the hosts of the subnet, taken or not.
ChooseOverlayIpUnchecked(a) ==
    /\ pc[a] = "choose"
    /\ \E n \in Hosts(Network(a)) : ip' = [ip EXCEPT ![a] = AddrStr(n)]
    /\ retries' = [retries EXCEPT ![a] = 0]
    /\ pc' = [pc EXCEPT ![a] = "create"]
    /\ UNCHANGED <<config, store, overlay_ip, error, party, rules, restarts,
                   zkerrors>>

\* _find_available_overlay_ip, lines 146-147, with _choose_overlay_ip: one
\* get_children, then a random pick, or NoAvailableIPsError out of main().
ChooseOverlayIp(a) ==
    /\ pc[a] = "choose"
    /\ IF AvailableIps(a) = {}
       THEN /\ pc' = [pc EXCEPT ![a] = "failed"]
            /\ error' = [error EXCEPT ![a] = "NoAvailableIPsError"]
            /\ UNCHANGED <<ip, retries>>
       ELSE /\ \E n \in AvailableIps(a) : ip' = [ip EXCEPT ![a] = AddrStr(n)]
            /\ retries' = [retries EXCEPT ![a] = 0]
            /\ pc' = [pc EXCEPT ![a] = "create"]
            /\ UNCHANGED error
    /\ UNCHANGED <<config, store, overlay_ip, party, rules, restarts, zkerrors>>

\* A slip in the claim step: the lease is written with set semantics, so a
\* lease that exists is overwritten by the candidate.
CreateIdToIpOverwriting(a) ==
    /\ pc[a] = "create"
    /\ retries[a] < MAX_IP_TRIES
    /\ retries' = [retries EXCEPT ![a] = @ + 1]
    /\ IF ~idtoip_path[Local(a)]
       THEN /\ pc' = [pc EXCEPT ![a] = "ensure_idtoip"]
            /\ UNCHANGED id_to_ip
       ELSE /\ id_to_ip' = [id_to_ip EXCEPT ![Local(a)][instance_id[a]] = ip[a]]
            /\ pc' = [pc EXCEPT ![a] = "get_created"]
    /\ UNCHANGED <<config, idtoip_path, iptoid_path, ip_to_id, ip_map, ip,
                   overlay_ip, error, party, rules, restarts, zkerrors>>

\* A slip in the claim loop: the attempts are not counted.
CreateIdToIpUncounted(a) ==
    /\ pc[a] = "create"
    /\ LET e == Local(a)
           x == instance_id[a]
       IN
       IF ~idtoip_path[e]
       THEN /\ pc' = [pc EXCEPT ![a] = "ensure_idtoip"]
            /\ UNCHANGED id_to_ip
       ELSE IF id_to_ip[e][x] # NoNode
       THEN /\ pc' = [pc EXCEPT ![a] = "get_existing"]
            /\ UNCHANGED id_to_ip
       ELSE /\ id_to_ip' = [id_to_ip EXCEPT ![e][x] = ip[a]]
            /\ pc' = [pc EXCEPT ![a] = "get_created"]
    /\ UNCHANGED <<config, idtoip_path, iptoid_path, ip_to_id, ip_map, ip,
                   retries, overlay_ip, error, party, rules, restarts,
                   zkerrors>>

\* _find_available_overlay_ip, lines 148-157: the loop test and the create
\* of id_to_ip/<self>.  create fails with NoNodeError when the parent is
\* absent and with NodeExistsError when the node is there.
CreateIdToIp(a) ==
    /\ pc[a] = "create"
    /\ LET e == Local(a)
           x == instance_id[a]
       IN
       IF retries[a] >= MAX_IP_TRIES
       THEN /\ pc' = [pc EXCEPT ![a] = "failed"]
            /\ error' = [error EXCEPT ![a] = "NoAvailableIPsError"]
            /\ UNCHANGED <<retries, id_to_ip>>
       ELSE /\ retries' = [retries EXCEPT ![a] = @ + 1]
            /\ UNCHANGED error
            /\ IF ~idtoip_path[e]
               THEN /\ pc' = [pc EXCEPT ![a] = "ensure_idtoip"]
                    /\ UNCHANGED id_to_ip
               ELSE IF id_to_ip[e][x] # NoNode
               THEN /\ pc' = [pc EXCEPT ![a] = "get_existing"]
                    /\ UNCHANGED id_to_ip
               ELSE /\ id_to_ip' = [id_to_ip EXCEPT ![e][x] = ip[a]]
                    /\ pc' = [pc EXCEPT ![a] = "get_created"]
    /\ UNCHANGED <<config, idtoip_path, iptoid_path, ip_to_id, ip_map, ip,
                   overlay_ip, party, rules, restarts, zkerrors>>

\* lines 153-156: ensure_path(id_to_ip), then the loop again with the same ip.
EnsureIdToIpPath(a) ==
    /\ pc[a] = "ensure_idtoip"
    /\ idtoip_path' = [idtoip_path EXCEPT ![Local(a)] = TRUE]
    /\ pc' = [pc EXCEPT ![a] = "create"]
    /\ UNCHANGED <<config, id_to_ip, iptoid_path, ip_to_id, ip_map, ip,
                   retries, overlay_ip, error, party, rules, restarts,
                   zkerrors>>

\* lines 157-164: after NodeExistsError the stored lease is read and returned
\* (the locals ip and retries end with the call); NoNodeError on that read
\* loops again.
GetExisting(a) ==
    /\ pc[a] = "get_existing"
    /\ LET zk_ip == id_to_ip[Local(a)][instance_id[a]] IN
       IF zk_ip = NoNode
       THEN /\ pc' = [pc EXCEPT ![a] = "create"]
            /\ UNCHANGED <<overlay_ip, ip, retries>>
       ELSE /\ overlay_ip' = [overlay_ip EXCEPT ![a] = zk_ip]
            /\ pc' = [pc EXCEPT ![a] = "set_map"]
            /\ ip' = [ip EXCEPT ![a] = NoIp]
            /\ retries' = [retries EXCEPT ![a] = 0]
    /\ UNCHANGED <<config, store, error, party, rules,
                   restarts, zkerrors>>

\* lines 165-175: after a successful create the lease is read back; the value
\* read is returned whether or not it is the candidate; NoNodeError loops.
GetCreated(a) ==
    /\ pc[a] = "get_created"
    /\ LET zk_ip == id_to_ip[Local(a)][instance_id[a]] IN
       IF zk_ip = NoNode
       THEN /\ pc' = [pc EXCEPT ![a] = "create"]
            /\ UNCHANGED <<overlay_ip, ip, retries>>
       ELSE /\ overlay_ip' = [overlay_ip EXCEPT ![a] =
                                 IF zk_ip = ip[a] THEN ip[a] ELSE zk_ip]
            /\ pc' = [pc EXCEPT ![a] = "set_map"]
            /\ ip' = [ip EXCEPT ![a] = NoIp]
            /\ retries' = [retries EXCEPT ![a] = 0]
    /\ UNCHANGED <<config, store, error, party, rules,
                   restarts, zkerrors>>

\* _set_ip_to_id_map, line 183: set ip_to_id/<ip> to the instance-id.  When
\* the node is there register returns; NoNodeError leads to the create.
SetIpToIdMap(a) ==
    /\ pc[a] = "set_map"
    /\ LET e == Local(a) IN
       IF iptoid_path[e] /\ ip_to_id[e][overlay_ip[a]] # NoNode
       THEN /\ ip_to_id' = [ip_to_id EXCEPT ![e][overlay_ip[a]] = instance_id[a]]
            /\ pc' = [pc EXCEPT ![a] = "run"]
       ELSE /\ pc' = [pc EXCEPT ![a] = "create_map"]
            /\ UNCHANGED ip_to_id
    /\ UNCHANGED <<config, idtoip_path, id_to_ip, iptoid_path, ip_map, ip,
                   retries, overlay_ip, error, party, rules, restarts,
                   zkerrors>>

\* _set_ip_to_id_map, lines 186-188: create ip_to_id/<ip>.  NoNodeError (no
\* parent) is caught; NodeExistsError is not, and ends main().
CreateIpToIdMap(a) ==
    /\ pc[a] = "create_map"
    /\ LET e == Local(a) IN
       IF ~iptoid_path[e]
       THEN /\ pc' = [pc EXCEPT ![a] = "ensure_map"]
            /\ UNCHANGED <<ip_to_id, error>>
       ELSE IF ip_to_id[e][overlay_ip[a]] # NoNode
       THEN /\ pc' = [pc EXCEPT ![a] = "failed"]
            /\ error' = [error EXCEPT ![a] = "NodeExistsError"]
            /\ UNCHANGED ip_to_id
       ELSE /\ ip_to_id' = [ip_to_id EXCEPT ![e][overlay_ip[a]] = instance_id[a]]
            /\ pc' = [pc EXCEPT ![a] = "run"]
            /\ UNCHANGED error
    /\ UNCHANGED <<config, idtoip_path, id_to_ip, iptoid_path, ip_map, ip,
                   retries, overlay_ip, party, rules, restarts,
                   zkerrors>>

\* _set_ip_to_id_map, lines 189-190: ensure_path of the node's own path
\* creates the parent and the node (with empty data); then the set again.
EnsureIpToIdPath(a) ==
    /\ pc[a] = "ensure_map"
    /\ LET e == Local(a) IN
       /\ iptoid_path' = [iptoid_path EXCEPT ![e] = TRUE]
       /\ ip_to_id' = [ip_to_id EXCEPT ![e][overlay_ip[a]] =
                          IF @ = NoNode THEN EmptyData ELSE @]
    /\ pc' = [pc EXCEPT ![a] = "set_map"]
    /\ UNCHANGED <<config, idtoip_path, id_to_ip, ip_map, ip, retries,
                   overlay_ip, error, party, rules, restarts, zkerrors>>

Register(a) ==
    \/ RegisterGet(a)
    \/ ChooseOverlayIp(a)
    \/ CreateIdToIp(a)
    \/ EnsureIdToIpPath(a)
    \/ GetExisting(a)
    \/ GetCreated(a)
    \/ SetIpToIdMap(a)
    \/ CreateIpToIdMap(a)
    \/ EnsureIpToIdPath(a)

\* --------------------------------------------------------------- strings

\* A node name is a sequence of tokens: the delimiters "-" and "|" and the
\* texts between them.  Split is str.split(delim): the pieces between the
\* occurrences of delim, each again a sequence of tokens.
RECURSIVE Split(_, _)
Split(s, delim) ==
    IF \A i \in 1..Len(s) : s[i] # delim
    THEN <<s>>
    ELSE LET i == CHOOSE j \in 1..Len(s) :
                      s[j] = delim /\ \A k \in 1..(j - 1) : s[k] # delim
         IN  <<SubSeq(s, 1, i - 1)>> \o Split(SubSeq(s, i + 1, Len(s)), delim)

\* The text of a piece: its tokens run together.
RECURSIVE Text(_)
Text(s) == IF s = <<>> THEN "" ELSE Head(s) \o Text(Tail(s))

\* The metadata service's public-ipv4 and local-ipv4 of each host, by its
\* instance-id (lines 93-97).
PublicIps == ("i-1" :> "54.0.0.1") @@ ("i-2" :> "54.0.0.2") @@ ("i-3" :> "54.0.0.3")
PrivateIps == ("i-1" :> "10.0.0.1") @@ ("i-2" :> "10.0.0.2") @@ ("i-3" :> "10.0.0.3")

\* ------------------------------------------------------- InstanceIPBundle

\* The texts IPv4Network(unicode(ip)) accepts without AddressValueError: the
\* dotted quads of the model.
Ipv4Texts ==
    AddrStrs \cup {PublicIps[x] : x \in InstanceIds}
             \cup {PrivateIps[x] : x \in InstanceIds}

\* binary_check = re.compile('[01]'), binary_check.match(s): the first
\* character of s is 0 or 1 (match looks at the start only).
BinaryCheckMatch(s) ==
    s \in {"0", "1", "10"} \cup AddrStrs \cup {PrivateIps[x] : x \in InstanceIds}

ParseError(kind) ==
    [error |-> kind, public_ip |-> "", private_ip |-> "", overlay_ip |-> "",
     is_vpc |-> ""]

\* _parse_entry, lines 252-283.  entry.split("-") must give two pieces;
\* the piece after the last "|" is is_vpc (IndexError when there is no "|");
\* zip pairs the three labels with the first three pieces, so fewer than
\* three pieces fail the length test and pieces after the third are ignored;
\* each of the three must pass IPv4Network.
ParseEntry(entry) ==
    LET parts == Split(entry, "-") IN
    IF Len(parts) # 2 THEN ParseError("IPPatternMismatchError") ELSE
    LET pieces == Split(parts[2], "|") IN
    IF Len(pieces) < 2 THEN ParseError("IndexError") ELSE
    LET flag == Text(pieces[Len(pieces)]) IN
    IF ~BinaryCheckMatch(flag) THEN ParseError("IPPatternMismatchError") ELSE
    IF Len(pieces) < 3 THEN ParseError("IPPatternMismatchError") ELSE
    IF \E i \in 1..3 : Text(pieces[i]) \notin Ipv4Texts
    THEN ParseError("IPPatternMismatchError")
    ELSE [error |-> NoError,
          public_ip |-> Text(pieces[1]),
          private_ip |-> Text(pieces[2]),
          overlay_ip |-> Text(pieces[3]),
          is_vpc |-> flag]

\* ------------------------------------------------------------ Registry.run

public_ip(a) == PublicIps[instance_id[a]]
private_ip(a) == PrivateIps[instance_id[a]]

\* _get_ip_map: "%s|%s|%s|%d" of the public, private and overlay address
\* and the realm flag.
GetIpMap(a) ==
    <<public_ip(a), "|", private_ip(a), "|", overlay_ip[a], "|",
      IF is_vpc[a] THEN "1" ELSE "0">>

\* ShallowParty.__init__: the node is uuid4().hex, "-" and the identifier;
\* every party object draws a new uuid.
Uuid(a, n, side) == a \o "x" \o ToString(n) \o side
PartyNode(a, n, side) == <<Uuid(a, n, side), "-">> \o GetIpMap(a)

\* An ephemeral child of ip_map: its name and the agent whose session owns it.
Member(a, n, side) == [name |-> PartyNode(a, n, side), owner |-> a]

\* A slip in main: run() is called without waiting for register().
JoinLocalUnregistered(a) ==
    /\ pc[a] \in {"run", "register"}
    /\ party' = [party EXCEPT ![a] = @ + 1]
    /\ ip_map' = [ip_map EXCEPT ![Local(a)] =
                     @ \cup {[name |-> <<a \o "x" \o ToString(party[a] + 1) \o "l",
                                         "-", PublicIps[instance_id[a]], "|",
                                         PrivateIps[instance_id[a]], "|",
                                         overlay_ip[a], "|",
                                         IF is_vpc[a] THEN "1" ELSE "0">>,
                              owner |-> a]}]
    /\ pc' = [pc EXCEPT ![a] = "join_remote"]
    /\ UNCHANGED <<config, idtoip_path, id_to_ip, iptoid_path, ip_to_id, ip,
                   retries, overlay_ip, error, rules, restarts, zkerrors>>

\* run, lines 211-213: both party objects are built and the local one joins.
JoinLocal(a) ==
    /\ pc[a] = "run"
    /\ party' = [party EXCEPT ![a] = @ + 1]
    /\ ip_map' = [ip_map EXCEPT ![Local(a)] =
                     @ \cup {Member(a, party[a] + 1, "l")}]
    /\ pc' = [pc EXCEPT ![a] = "join_remote"]
    /\ UNCHANGED <<config, idtoip_path, id_to_ip, iptoid_path, ip_to_id, ip,
                   retries, overlay_ip, error, rules, restarts, zkerrors>>

\* run, line 214: the remote party joins.
JoinRemote(a) ==
    /\ pc[a] = "join_remote"
    /\ ip_map' = [ip_map EXCEPT ![Remote(a)] =
                     @ \cup {Member(a, party[a], "r")}]
    /\ pc' = [pc EXCEPT ![a] = "watch"]
    /\ UNCHANGED <<config, idtoip_path, id_to_ip, iptoid_path, ip_to_id, ip,
                   retries, overlay_ip, error, party, rules, restarts,
                   zkerrors>>

\* A ChildrenWatch object (line 216).  kazoo registers it as a session
\* listener before its first get_children; established says that a
\* get_children of it has succeeded; seen is the child set of that call.
\* While update_iptables runs for it (state other than "idle", under the
\* object's own lock) thread says where, snapshot is the argument hosts,
\* bundles and program are the locals of build.
IdleWatch ==
    [established |-> FALSE, seen |-> {}, state |-> "idle", thread |-> "none",
     snapshot |-> <<>>, bundles |-> <<>>, program |-> <<>>,
     syntax_ok |-> TRUE]

\* run, lines 224-226: a request of run() (a join, or the get_children of
\* the watch) raises ZookeeperError; the request did nothing, the sessions
\* stay as they are, and run() is entered again.  A watch whose first
\* get_children failed stays registered as a session listener.
ZookeeperError(a) ==
    /\ pc[a] \in {"run", "join_remote", "watch"}
    /\ zkerrors < MaxErrors
    /\ zkerrors' = zkerrors + 1
    /\ watch' = IF pc[a] = "watch"
                THEN [watch EXCEPT ![a] = (party[a] :> IdleWatch) @@ @]
                ELSE watch
    /\ pc' = [pc EXCEPT ![a] = "run"]
    /\ UNCHANGED <<config, store, ip, retries, overlay_ip, error, party,
                   live, restarts>>

\* The agent process is killed and started again (main, lines 480-483): its
\* sessions end and their ephemeral nodes go; everything in memory is new.
\* The rules the kernel holds stay.
Restart(a) ==
    /\ restarts < MaxRestarts
    /\ restarts' = restarts + 1
    /\ ip_map' = [e \in Realms |-> {m \in ip_map[e] : m.owner # a}]
    /\ pc' = [pc EXCEPT ![a] = "register"]
    /\ ip' = [ip EXCEPT ![a] = NoIp]
    /\ retries' = [retries EXCEPT ![a] = 0]
    /\ overlay_ip' = [overlay_ip EXCEPT ![a] = NoIp]
    /\ error' = [error EXCEPT ![a] = NoError]
    /\ watch' = [watch EXCEPT ![a] = <<>>]
    /\ UNCHANGED <<config, idtoip_path, id_to_ip, iptoid_path, ip_to_id,
                   party, live, zkerrors>>

Next ==
    \E a \in Agents :
        \/ Register(a)
        \/ JoinLocal(a)
        \/ JoinRemote(a)
        \/ ZookeeperError(a)
        \/ Restart(a)

\* Registration and membership of three agents, up to the watch.
Spec == Init /\ [][Next]_vars

\* ---------------------------------------------------------------- IPtables

\* How many children ip_map holds at most when a foreign member joins.
MaxMembers == 2

\* config [neti] ssh_whitelist, split on ",".
ssh_whitelist == <<"192.0.2.10">>

IPTABLES_BASE ==
    "\n*filter\n-N ec2_whitelist\n-N ssh_whitelist\n-A INPUT -i lo -j ACCEPT\n"
    \o "-A INPUT -m state --state ESTABLISHED,RELATED -j ACCEPT\n"
    \o "-A INPUT -j ec2_whitelist\n-A INPUT -j ssh_whitelist\n"

\* int(self.is_vpc): the texts int() accepts, and how the bool is_vpc
\* compares to the number (True == 1, False == 0, neither equals 10).
IntTexts == {"0", "1", "10"}
SameRealm(flag, bundle) ==
    IF flag THEN bundle.is_vpc = "1" ELSE bundle.is_vpc = "0"

\* A slip in filter_ip: the realm is not looked at.
FilterIpPublic(bundle, flag) == bundle.public_ip

\* filter_ip, lines 246-250, and NAT_ips, lines 240-244.
filter_ip(bundle, flag) ==
    IF SameRealm(flag, bundle) THEN bundle.private_ip ELSE bundle.public_ip
NAT_ips(bundle, flag) ==
    [overlay_ip |-> bundle.overlay_ip,
     dest_ip |-> IF SameRealm(flag, bundle) THEN bundle.private_ip
                                            ELSE bundle.public_ip]

\* FilterRule.__init__, line 400, and NATRule.__init__, line 425.
FilterRule(chain, source_ip, dport) ==
    "-A " \o chain \o " -s " \o source_ip \o " " \o dport \o " -j ACCEPT\n"
NATRule(chain, source_ip, dest_ip) ==
    "-A " \o chain \o " -d " \o source_ip \o " -j DNAT --to-destination "
    \o dest_ip \o "\n"

\* A slip in _gen_rule_file: the bundles are walked from the last to the
\* first.
GenRuleFileReversed(bundles, flag) ==
    LET n == Len(bundles)
        rev == [i \in 1..n |-> bundles[n + 1 - i]]
    IN  <<IPTABLES_BASE>>
        \o (IF open_80
            THEN <<"-A INPUT -p tcp --dport 80 -m state --state NEW,ESTABLISHED -j ACCEPT",
                   "-A OUTPUT -o eth0 -p tcp --sport 80 -m state --state ESTABLISHED -j ACCEPT">>
            ELSE <<>>)
        \o (IF reject_all THEN <<"-A INPUT -p tcp -j DROP">> ELSE <<>>)
        \o [i \in 1..n |->
                FilterRule("ec2_whitelist", filter_ip(rev[i], flag), "")]
        \o [i \in 1..Len(ssh_whitelist) |->
                FilterRule("ssh_whitelist", ssh_whitelist[i], "-p tcp --dport 22")]
        \o (IF flag THEN <<FilterRule("ssh_whitelist", "10.0.0.0/8", "")>> ELSE <<>>)
        \o <<"COMMIT\n", "*nat\n">>
        \o [i \in 1..n |->
                NATRule("OUTPUT", NAT_ips(rev[i], flag).overlay_ip,
                        NAT_ips(rev[i], flag).dest_ip)]
        \o <<"COMMIT\n">>

\* _gen_rule_file, lines 344-366: the texts written to the file, in order.
GenRuleFile(bundles, flag) ==
    <<IPTABLES_BASE>>
    \o (IF open_80
        THEN <<"-A INPUT -p tcp --dport 80 -m state --state NEW,ESTABLISHED -j ACCEPT",
               "-A OUTPUT -o eth0 -p tcp --sport 80 -m state --state ESTABLISHED -j ACCEPT">>
        ELSE <<>>)
    \o (IF reject_all THEN <<"-A INPUT -p tcp -j DROP">> ELSE <<>>)
    \o [i \in 1..Len(bundles) |->
            FilterRule("ec2_whitelist", filter_ip(bundles[i], flag), "")]
    \o [i \in 1..Len(ssh_whitelist) |->
            FilterRule("ssh_whitelist", ssh_whitelist[i], "-p tcp --dport 22")]
    \o (IF flag THEN <<FilterRule("ssh_whitelist", "10.0.0.0/8", "")>> ELSE <<>>)
    \o <<"COMMIT\n", "*nat\n">>
    \o [i \in 1..Len(bundles) |->
            NATRule("OUTPUT", NAT_ips(bundles[i], flag).overlay_ip,
                    NAT_ips(bundles[i], flag).dest_ip)]
    \o <<"COMMIT\n">>

\* _ips_from_entries, lines 368-374: every entry is parsed, in order.
IpsFromEntries(entries) == [i \in 1..Len(entries) |-> ParseEntry(entries[i])]

\* The exception _ips_from_entries leaves with: that of the first entry
\* that does not parse (NoError when all do).
FirstError(parsed) ==
    IF \A i \in 1..Len(parsed) : parsed[i].error = NoError
    THEN NoError
    ELSE parsed[CHOOSE i \in 1..Len(parsed) :
                    /\ parsed[i].error # NoError
                    /\ \A j \in 1..(i - 1) : parsed[j].error = NoError].error

\* ------------------------------------------------- the watch of Registry.run

\* get_children: the names of the children, in an order the ensemble picks.
Listings(members) ==
    LET names == {m.name : m \in members}
        n == Cardinality(names)
    IN  {l \in [1..n -> names] : \A i, j \in 1..n : i # j => l[i] # l[j]}

\* The process runs: main has not ended.
Alive(a) == pc[a] \notin {"failed", "exited"}

\* The start of a call of update_iptables(hosts) for watch w on a thread.
Deliver(a, w, thread, listing) ==
    [(w :> IdleWatch) @@ watch[a] EXCEPT ![w] =
        [established |-> TRUE, seen |-> {listing[i] : i \in 1..Len(listing)},
         state |-> "build", thread |-> thread, snapshot |-> listing,
         bundles |-> <<>>, program |-> <<>>, syntax_ok |-> TRUE]]

\* A slip in run: the watch is installed first, the joins are left for later.
InstallWatchBeforeJoins(a) ==
    /\ pc[a] = "run"
    /\ party' = [party EXCEPT ![a] = @ + 1]
    /\ \E l \in Listings(ip_map[Local(a)]) :
           watch' = [watch EXCEPT ![a] = Deliver(a, party[a] + 1, "main", l)]
    /\ pc' = [pc EXCEPT ![a] = "callback"]
    /\ UNCHANGED <<config, store, ip, retries, overlay_ip, error, live,
                   restarts, zkerrors>>

\* run, lines 216-219: the ChildrenWatch is built; its first get_children
\* succeeds and kazoo calls update_iptables with the children on the main
\* thread, inside the decorator.
InstallWatch(a) ==
    /\ pc[a] = "watch"
    /\ \E l \in Listings(ip_map[Local(a)]) :
           watch' = [watch EXCEPT ![a] = Deliver(a, party[a], "main", l)]
    /\ pc' = [pc EXCEPT ![a] = "callback"]
    /\ UNCHANGED <<config, store, ip, retries, overlay_ip, error, party,
                   live, restarts, zkerrors>>

\* kazoo's session listener of a watch whose get_children has not succeeded:
\* when the connection is back it runs get_children and update_iptables on
\* a thread of its own.
SessionWatcher(a, w) ==
    /\ Alive(a)
    /\ w \in DOMAIN watch[a]
    /\ ~watch[a][w].established
    /\ watch[a][w].state = "idle"
    /\ \E l \in Listings(ip_map[Local(a)]) :
           watch' = [watch EXCEPT ![a] = Deliver(a, w, "spawned", l)]
    /\ UNCHANGED <<config, store, pc, ip, retries, overlay_ip, error, party,
                   live, restarts, zkerrors>>

\* The children of ip_map changed after the watch's last get_children:
\* kazoo's callback thread, which runs one callback at a time, calls
\* get_children and update_iptables again.
WatchEvent(a, w) ==
    /\ Alive(a)
    /\ w \in DOMAIN watch[a]
    /\ watch[a][w].established
    /\ watch[a][w].state = "idle"
    /\ watch[a][w].seen # {m.name : m \in ip_map[Local(a)]}
    /\ \A v \in DOMAIN watch[a] :
           watch[a][v].state = "idle" \/ watch[a][v].thread # "watcher"
    /\ \E l \in Listings(ip_map[Local(a)]) :
           watch' = [watch EXCEPT ![a] = Deliver(a, w, "watcher", l)]
    /\ UNCHANGED <<config, store, pc, ip, retries, overlay_ip, error, party,
                   live, restarts, zkerrors>>

\* update_iptables returns on its thread: the locals go; main goes on to
\* its sleep loop (lines 221-222).
Return(a, w) ==
    /\ watch' = [watch EXCEPT ![a][w] =
                    [@ EXCEPT !.state = "idle", !.thread = "none",
                              !.snapshot = <<>>, !.bundles = <<>>,
                              !.program = <<>>, !.syntax_ok = TRUE]]
    /\ pc' = IF watch[a][w].thread = "main"
             THEN [pc EXCEPT ![a] = "sleeping"] ELSE pc
    /\ UNCHANGED error

\* update_iptables leaves with an exception that is no ZookeeperError: on
\* the main thread it leaves run() and main() too, and the process ends; on
\* a thread of kazoo it is logged and the thread goes on.
Raise(a, w, kind) ==
    IF watch[a][w].thread = "main"
    THEN /\ pc' = [pc EXCEPT ![a] = "failed"]
         /\ error' = [error EXCEPT ![a] = kind]
         /\ watch' = [watch EXCEPT ![a][w] =
                         [@ EXCEPT !.state = "idle", !.thread = "none"]]
    ELSE /\ watch' = [watch EXCEPT ![a][w] =
                         [@ EXCEPT !.state = "idle", !.thread = "none",
                                   !.snapshot = <<>>, !.bundles = <<>>,
                                   !.program = <<>>, !.syntax_ok = TRUE]]
         /\ UNCHANGED <<pc, error>>

\* build, lines 378-383: the entries are parsed; an entry that does not
\* parse ends build with its exception; no entry at all ends it quietly.
Build(a, w) ==
    /\ Alive(a)
    /\ w \in DOMAIN watch[a]
    /\ watch[a][w].state = "build"
    /\ LET parsed == IpsFromEntries(watch[a][w].snapshot) IN
       IF FirstError(parsed) # NoError
       THEN Raise(a, w, FirstError(parsed))
       ELSE IF Len(parsed) = 0
       THEN Return(a, w)
       ELSE /\ watch' = [watch EXCEPT ![a][w] =
                            [@ EXCEPT !.state = "gen", !.bundles = parsed]]
            /\ UNCHANGED <<pc, error>>
    /\ UNCHANGED <<config, store, ip, retries, overlay_ip, party, live,
                   restarts, zkerrors>>

\* build, lines 384-385: the rule file is written; int(is_vpc) of a bundle
\* whose flag is no number raises ValueError.
GenRules(a, w) ==
    /\ Alive(a)
    /\ w \in DOMAIN watch[a]
    /\ watch[a][w].state = "gen"
    /\ LET bundles == watch[a][w].bundles IN
       IF \E i \in 1..Len(bundles) : bundles[i].is_vpc \notin IntTexts
       THEN Raise(a, w, "ValueError")
       ELSE /\ watch' = [watch EXCEPT ![a][w] =
                            [@ EXCEPT !.state = "check",
                                      !.program = GenRuleFile(bundles, is_vpc[a])]]
            /\ UNCHANGED <<pc, error>>
    /\ UNCHANGED <<config, store, ip, retries, overlay_ip, party, live,
                   restarts, zkerrors>>

\* A slip in _push_live: dry_run is not looked at, the file goes on to the
\* apply run.
SyntaxCheckIgnoringDryRun(a, w) ==
    /\ Alive(a)
    /\ w \in DOMAIN watch[a]
    /\ watch[a][w].state = "check"
    /\ \E ok \in BOOLEAN :
          watch' = [watch EXCEPT ![a][w] =
                       [@ EXCEPT !.state = "apply", !.syntax_ok = ok]]
    /\ UNCHANGED <<config, store, pc, error, ip, retries, overlay_ip, party,
                   live, restarts, zkerrors>>

\* _push_live, lines 330-337: iptables-restore -t; a failure is logged and
\* _push_live goes on.  With dry_run the file is printed and sys.exit(0)
\* ends the process on the main thread, and the calling thread elsewhere.
SyntaxCheck(a, w) ==
    /\ Alive(a)
    /\ w \in DOMAIN watch[a]
    /\ watch[a][w].state = "check"
    /\ \E ok \in BOOLEAN :
          IF dry_run
          THEN IF watch[a][w].thread = "main"
               THEN /\ pc' = [pc EXCEPT ![a] = "exited"]
                    /\ watch' = [watch EXCEPT ![a][w] =
                                    [@ EXCEPT !.state = "idle", !.thread = "none",
                                              !.syntax_ok = ok]]
                    /\ UNCHANGED error
               ELSE Raise(a, w, "SystemExit")
          ELSE /\ watch' = [watch EXCEPT ![a][w] =
                               [@ EXCEPT !.state = "apply", !.syntax_ok = ok]]
               /\ UNCHANGED <<pc, error>>
    /\ UNCHANGED <<config, store, ip, retries, overlay_ip, party, live,
                   restarts, zkerrors>>

\* _push_live, lines 338-342: iptables-restore -v loads the file, or fails
\* and is logged; then build and update_iptables return.
PushLive(a, w) ==
    /\ Alive(a)
    /\ w \in DOMAIN watch[a]
    /\ watch[a][w].state = "apply"
    /\ \E ok \in BOOLEAN :
          live' = IF ok THEN [live EXCEPT ![a] = watch[a][w].program] ELSE live
    /\ Return(a, w)
    /\ UNCHANGED <<config, store, ip, retries, overlay_ip, party, restarts,
                   zkerrors>>

\* ------------------------------------------------------------- other hosts

\* Members other sessions publish under ip_map: a host of the other realm,
\* a name without its realm field, and a name whose realm is no 0 or 1.
PeerEntries ==
    { <<"p1", "-", "54.0.0.2", "|", "10.0.0.2", "|", "10.99.0.5", "|", "0">>,
      <<"p2", "-", "54.0.0.3", "|", "10.0.0.3", "|", "10.99.0.6">>,
      <<"p3", "-", "54.0.0.3", "|", "10.0.0.3", "|", "10.99.0.6", "|", "2">> }

PeerJoin(e, name) ==
    /\ Cardinality(ip_map[e]) < MaxMembers
    /\ \A m \in ip_map[e] : m.name # name
    /\ ip_map' = [ip_map EXCEPT ![e] = @ \cup {[name |-> name, owner |-> "peer"]}]
    /\ UNCHANGED <<config, idtoip_path, id_to_ip, iptoid_path, ip_to_id, pc,
                   ip, retries, overlay_ip, error, party, rules, restarts,
                   zkerrors>>

PeerLeave(e, name) ==
    /\ [name |-> name, owner |-> "peer"] \in ip_map[e]
    /\ ip_map' = [ip_map EXCEPT ![e] = @ \ {[name |-> name, owner |-> "peer"]}]
    /\ UNCHANGED <<config, idtoip_path, id_to_ip, iptoid_path, ip_to_id, pc,
                   ip, retries, overlay_ip, error, party, rules, restarts,
                   zkerrors>>

\* ----------------------------------------------------------------- SpecRun

\* One agent inside run(): it has registered alone against an empty store.
TheAgent == "a1"
WatchIds == 1..(MaxErrors + 1)

InitRun ==
    /\ instance_id = [a1 |-> "i-1", a2 |-> "i-2", a3 |-> "i-3"]
    /\ is_vpc = [a \in Agents |-> TRUE]
    /\ idtoip_path = [e \in Realms |-> e = "vpc"]
    /\ id_to_ip = [e \in Realms |-> [x \in InstanceIds |->
                      IF e = "vpc" /\ x = "i-1" THEN "10.99.0.1" ELSE NoNode]]
    /\ iptoid_path = [e \in Realms |-> e = "vpc"]
    /\ ip_to_id = [e \in Realms |-> [t \in AddrStrs |->
                      IF e = "vpc" /\ t = "10.99.0.1" THEN "i-1" ELSE NoNode]]
    /\ ip_map = [e \in Realms |-> {}]
    /\ pc = [a \in Agents |-> IF a = TheAgent THEN "run" ELSE "register"]
    /\ ip = [a \in Agents |-> NoIp]
    /\ retries = [a \in Agents |-> 0]
    /\ overlay_ip = [a \in Agents |-> IF a = TheAgent THEN "10.99.0.1" ELSE NoIp]
    /\ error = [a \in Agents |-> NoError]
    /\ party = [a \in Agents |-> 0]
    /\ watch = [a \in Agents |-> <<>>]
    /\ live = [a \in Agents |-> NoRules]
    /\ dry_run \in BOOLEAN
    /\ open_80 = FALSE
    /\ reject_all = FALSE
    /\ restarts = 0
    /\ zkerrors = 0

NextRun ==
    \/ JoinLocal(TheAgent)
    \/ JoinRemote(TheAgent)
    \/ ZookeeperError(TheAgent)
    \/ InstallWatch(TheAgent)
    \/ \E w \in WatchIds :
           \/ SessionWatcher(TheAgent, w)
           \/ WatchEvent(TheAgent, w)
           \/ Build(TheAgent, w)
           \/ GenRules(TheAgent, w)
           \/ SyntaxCheck(TheAgent, w)
           \/ PushLive(TheAgent, w)
    \/ \E name \in PeerEntries :
           \/ PeerJoin(Local(TheAgent), name)
           \/ PeerLeave(Local(TheAgent), name)

\* run() of one agent with its watch, its rule synthesis and the other
\* hosts' members coming and going.
SpecRun == InitRun /\ [][NextRun]_vars

\* --------------------------------------------------------------- SpecBuild

\* Names the children of ip_map can have, whoever created them: two that
\* follow "<uuid>-<public>|<private>|<overlay>|<realm>" (a vpc host and an
\* ec2 host), and names that do not: three fields, a realm of 2, a realm of
\* 10, no "-", five fields, a text that is no address, no "|".
EntryPool ==
    { <<"u1", "-", "54.0.0.1", "|", "10.0.0.1", "|", "10.99.0.1", "|", "1">>,
      <<"u2", "-", "54.0.0.2", "|", "10.0.0.2", "|", "10.99.0.5", "|", "0">>,
      <<"u3", "-", "54.0.0.3", "|", "10.0.0.3", "|", "10.99.0.6">>,
      <<"u4", "-", "54.0.0.3", "|", "10.0.0.3", "|", "10.99.0.6", "|", "2">>,
      <<"u5", "-", "54.0.0.3", "|", "10.0.0.3", "|", "10.99.0.6", "|", "10">>,
      <<"54.0.0.3", "|", "10.0.0.3", "|", "10.99.0.6", "|", "1">>,
      <<"u6", "-", "54.0.0.3", "|", "10.0.0.3", "|", "10.99.0.6", "|", "x", "|", "1">>,
      <<"u7", "-", "54.0.0.3", "|", "10.0.0.3", "|", "10.99.0.999", "|", "1">>,
      <<"u8", "-", "54.0.0.3">> }

\* The agent is inside run() for the second time, after a ZookeeperError in
\* the first get_children of its first watch: update_iptables runs for the
\* second watch on the main thread and for the first on a thread of kazoo,
\* each with its own listing of the children of ip_map, which are any names
\* of the pool.  The realm of the host and the [neti] switches are free.
InitBuild ==
    \E v, o, r \in BOOLEAN :
    \E M \in {S \in SUBSET EntryPool : Cardinality(S) <= MaxMembers} :
    \E l1, l2 \in Listings({[name |-> n, owner |-> "peer"] : n \in M}) :
    LET e0 == IF v THEN "vpc" ELSE "ec2"
        o0 == IF v THEN "10.99.0.1" ELSE "10.99.0.5"
    IN
    /\ instance_id = [a1 |-> "i-1", a2 |-> "i-2", a3 |-> "i-3"]
    /\ is_vpc = [a \in Agents |-> v]
    /\ idtoip_path = [e \in Realms |-> e = e0]
    /\ id_to_ip = [e \in Realms |-> [x \in InstanceIds |->
                      IF e = e0 /\ x = "i-1" THEN o0 ELSE NoNode]]
    /\ iptoid_path = [e \in Realms |-> e = e0]
    /\ ip_to_id = [e \in Realms |-> [t \in AddrStrs |->
                      IF e = e0 /\ t = o0 THEN "i-1" ELSE NoNode]]
    /\ ip_map = [e \in Realms |->
                    IF e = e0 THEN {[name |-> n, owner |-> "peer"] : n \in M}
                              ELSE {}]
    /\ pc = [a \in Agents |-> IF a = TheAgent THEN "callback" ELSE "register"]
    /\ ip = [a \in Agents |-> NoIp]
    /\ retries = [a \in Agents |-> 0]
    /\ overlay_ip = [a \in Agents |-> IF a = TheAgent THEN o0 ELSE NoIp]
    /\ error = [a \in Agents |-> NoError]
    /\ party = [a \in Agents |-> IF a = TheAgent THEN 2 ELSE 0]
    /\ watch = [a \in Agents |->
                   IF a = TheAgent
                   THEN <<[IdleWatch EXCEPT !.established = TRUE, !.seen = M,
                                            !.state = "build",
                                            !.thread = "spawned",
                                            !.snapshot = l1],
                          [IdleWatch EXCEPT !.established = TRUE, !.seen = M,
                                            !.state = "build",
                                            !.thread = "main",
                                            !.snapshot = l2]>>
                   ELSE <<>>]
    /\ live = [a \in Agents |-> NoRules]
    /\ dry_run = FALSE
    /\ open_80 = o
    /\ reject_all = r
    /\ restarts = 0
    /\ zkerrors = 1

NextBuild ==
    \/ \E w \in {1, 2} :
           \/ Build(TheAgent, w)
           \/ GenRules(TheAgent, w)
           \/ SyntaxCheck(TheAgent, w)
           \/ PushLive(TheAgent, w)
           \/ WatchEvent(TheAgent, w)
    \/ \E name \in EntryPool : PeerLeave(Local(TheAgent), name)

\* Rule synthesis for the listings ZooKeeper can hand to update_iptables.
SpecBuild == InitBuild /\ [][NextBuild]_vars

\* --------------------------------------------------------------- SpecStore

\* Other clients of the ensemble work on the nodes register uses: one
\* deletes id_to_ip/<x>, one deletes the empty node P/id_to_ip, one creates
\* id_to_ip/<x> with an address of its own choice.
StoreDeleteLease(e, x) ==
    /\ id_to_ip[e][x] # NoNode
    /\ id_to_ip' = [id_to_ip EXCEPT ![e][x] = NoNode]
    /\ UNCHANGED <<config, idtoip_path, iptoid_path, ip_to_id, ip_map, pc, ip,
                   retries, overlay_ip, error, party, rules, restarts,
                   zkerrors>>

StoreDeletePath(e) ==
    /\ idtoip_path[e]
    /\ \A x \in InstanceIds : id_to_ip[e][x] = NoNode
    /\ idtoip_path' = [idtoip_path EXCEPT ![e] = FALSE]
    /\ UNCHANGED <<config, id_to_ip, iptoid_path, ip_to_id, ip_map, pc, ip,
                   retries, overlay_ip, error, party, rules, restarts,
                   zkerrors>>

StoreCreateLease(e, x, v) ==
    /\ idtoip_path[e]
    /\ id_to_ip[e][x] = NoNode
    /\ id_to_ip' = [id_to_ip EXCEPT ![e][x] = v]
    /\ UNCHANGED <<config, idtoip_path, iptoid_path, ip_to_id, ip_map, pc, ip,
                   retries, overlay_ip, error, party, rules, restarts,
                   zkerrors>>

\* One agent calls register against an empty store.
InitStore ==
    /\ instance_id = [a1 |-> "i-1", a2 |-> "i-2", a3 |-> "i-3"]
    /\ is_vpc = [a \in Agents |-> TRUE]
    /\ idtoip_path = [e \in Realms |-> FALSE]
    /\ id_to_ip = [e \in Realms |-> [x \in InstanceIds |-> NoNode]]
    /\ iptoid_path = [e \in Realms |-> FALSE]
    /\ ip_to_id = [e \in Realms |-> [t \in AddrStrs |-> NoNode]]
    /\ ip_map = [e \in Realms |-> {}]
    /\ pc = [a \in Agents |-> "register"]
    /\ ip = [a \in Agents |-> NoIp]
    /\ retries = [a \in Agents |-> 0]
    /\ overlay_ip = [a \in Agents |-> NoIp]
    /\ error = [a \in Agents |-> NoError]
    /\ party = [a \in Agents |-> 0]
    /\ watch = [a \in Agents |-> <<>>]
    /\ live = [a \in Agents |-> NoRules]
    /\ dry_run = FALSE
    /\ open_80 = FALSE
    /\ reject_all = FALSE
    /\ restarts = 0
    /\ zkerrors = 0

NextStore ==
    \/ RegisterGet(TheAgent)
    \/ ChooseOverlayIp(TheAgent)
    \/ CreateIdToIp(TheAgent)
    \/ EnsureIdToIpPath(TheAgent)
    \/ GetExisting(TheAgent)
    \/ GetCreated(TheAgent)
    \/ SetIpToIdMap(TheAgent)
    \/ CreateIpToIdMap(TheAgent)
    \/ EnsureIpToIdPath(TheAgent)
    \/ StoreDeleteLease(Local(TheAgent), instance_id[TheAgent])
    \/ StoreDeletePath(Local(TheAgent))
    \/ \E n \in Hosts(Network(TheAgent)) :
           StoreCreateLease(Local(TheAgent), instance_id[TheAgent], AddrStr(n))

\* register of one agent while other clients create and delete the nodes
\* under P/id_to_ip.
SpecStore == InitStore /\ [][NextStore]_vars

\* -------------------------------------------------------------- properties

\* register has returned: main is in run().
Returned(a) == pc[a] \in {"run", "join_remote", "watch", "callback", "sleeping"}
\* main has ended with an exception.
Failed(a) == pc[a] = "failed"
\* the agent is inside _set_ip_to_id_map.
InSetMap(a) == pc[a] \in {"set_map", "create_map", "ensure_map"}
\* a step that is no process restart.
NoRestartStep == restarts' = restarts

Lease(a) == id_to_ip[Local(a)][instance_id[a]]
SubnetOf(e) == IF e = "vpc" THEN vpc_overlay_subnet ELSE ec2_overlay_subnet
IsHostOf(s, net) == s \in {AddrStr(n) : n \in Hosts(net)}

\* C1 (Uniqueness): two agents with distinct instance-ids whose register
\* calls have both returned hold different overlay addresses.
C1_Uniqueness ==
    \A a, b \in Agents :
        (/\ instance_id[a] # instance_id[b]
         /\ Returned(a) /\ Returned(b))
        => overlay_ip[a] # overlay_ip[b]

\* C2 (Forward/reverse agreement): once every register call has returned
\* (or ended main with an exception), each registrant X that returned O
\* finds id_to_ip/X = O and ip_to_id/O = X in its ensemble.
C2_ForwardReverseAgree ==
    (\A a \in Agents : Returned(a) \/ Failed(a))
    => \A a \in Agents :
           Returned(a) =>
               /\ Lease(a) = overlay_ip[a]
               /\ ip_to_id[Local(a)][overlay_ip[a]] = instance_id[a]

C4_SubnetConfinement ==
    /\ \A e \in Realms : \A x \in InstanceIds :
           id_to_ip[e][x] # NoNode => IsHostOf(id_to_ip[e][x], SubnetOf(e))
    /\ \A a \in Agents :
           Returned(a) => IsHostOf(overlay_ip[a], Network(a))

\* C4 witness: a host of each realm has registered.
C4_Witness ==
    \E a, b \in Agents :
        /\ is_vpc[a] /\ ~is_vpc[b]
        /\ Returned(a) /\ Returned(b)
        /\ id_to_ip["vpc"][instance_id[a]] # NoNode
        /\ id_to_ip["ec2"][instance_id[b]] # NoNode

\* the children of ip_to_id cover every host address of the agent's subnet.
Covered(a) ==
    /\ iptoid_path[Local(a)]
    /\ \A n \in Hosts(Network(a)) : ip_to_id[Local(a)][AddrStr(n)] # NoNode

\* C5 (Exhaustion): a register call that finds no lease while the children
\* of ip_to_id cover the subnet goes to _choose_overlay_ip without a write,
\* and _choose_overlay_ip then ends main with NoAvailableIPsError, before any
\* claim attempt (retries within MAX_IP_TRIES), leaving id_to_ip and ip_to_id
\* as they were.
C5_Exhaustion ==
    [][\A a \in Agents :
        /\ (pc[a] = "register" /\ pc'[a] # "register" /\ Lease(a) = NoNode
            /\ Covered(a))
           => /\ pc'[a] = "choose"
              /\ UNCHANGED store
        /\ (pc[a] = "choose" /\ pc'[a] # "choose" /\ Covered(a)
            /\ NoRestartStep)
           => /\ pc'[a] = "failed"
              /\ error'[a] = "NoAvailableIPsError"
              /\ retries'[a] <= MAX_IP_TRIES
              /\ UNCHANGED store
      ]_vars

\* C5 witness: main has ended with NoAvailableIPsError, the subnet covered
\* and the agent without a lease.
C5_Witness ==
    \E a \in Agents :
        /\ Failed(a) /\ error[a] = "NoAvailableIPsError"
        /\ Covered(a)
        /\ Lease(a) = NoNode
        /\ \A s \in AddrStrs : ip_to_id[Local(a)][s] # instance_id[a]

\* C6 (one address per instance-id): an id_to_ip node that exists keeps its
\* value in every step, and an agent whose register has returned holds the
\* value stored in id_to_ip/<its instance-id>.
C6_LeaseNeverChanges ==
    [][/\ \A e \in Realms : \A x \in InstanceIds :
              id_to_ip[e][x] # NoNode => id_to_ip'[e][x] = id_to_ip[e][x]
       /\ \A a \in Agents :
              pc'[a] \in {"run", "join_remote", "watch"}
              => overlay_ip'[a] = id_to_ip'[Local(a)][instance_id[a]]
      ]_vars

\* C6 witness: two agents with one instance-id have both registered, and
\* hold the same address.
C6_Witness ==
    \E a, b \in Agents :
        /\ a # b /\ instance_id[a] = instance_id[b]
        /\ Returned(a) /\ Returned(b)
        /\ overlay_ip[a] = overlay_ip[b]
        /\ overlay_ip[a] = Lease(a)

\* C7 (Registration precedes membership): whenever a member entry of a host
\* is under ip_map in either ensemble, id_to_ip/<host> exists in the host's
\* local ensemble and equals the overlay field of the entry.
C7_LeaseBeforeMember ==
    \A e \in Realms : \A m \in ip_map[e] :
        /\ Lease(m.owner) # NoNode
        /\ ParseEntry(m.name).error = NoError
        /\ ParseEntry(m.name).overlay_ip = Lease(m.owner)

\* C7 witness: run() was entered again after a ZookeeperError and the host
\* has joined both ensembles again.
C7_Witness ==
    \E a \in Agents :
        /\ zkerrors = 1 /\ party[a] = 2 /\ pc[a] = "watch"
        /\ \E m \in ip_map[Local(a)] : m.owner = a
        /\ \E m \in ip_map[Remote(a)] : m.owner = a

\* update_iptables is running for watch w of agent a.
Synthesizing(a, w) == w \in DOMAIN watch[a] /\ watch[a][w].state # "idle"

\* C8 (Joins precede the watch): a ChildrenWatch of a run() entry exists only
\* when the members of that entry are under ip_map in the local and in the
\* remote ensemble, and every snapshot handed to update_iptables, the first
\* one included, holds the local member's name.
C8_JoinsBeforeWatch ==
    \A a \in Agents : \A w \in DOMAIN watch[a] :
        /\ Member(a, w, "l") \in ip_map[Local(a)]
        /\ Member(a, w, "r") \in ip_map[Remote(a)]
        /\ Synthesizing(a, w) =>
               \E i \in 1..Len(watch[a][w].snapshot) :
                   watch[a][w].snapshot[i] = PartyNode(a, w, "l")

\* C8 witness: the first call of update_iptables, on the main thread, with a
\* snapshot of the host's own member and another host's.
C8_Witness ==
    \E a \in Agents : \E w \in DOMAIN watch[a] :
        /\ pc[a] = "callback"
        /\ watch[a][w].state = "build" /\ watch[a][w].thread = "main"
        /\ Len(watch[a][w].snapshot) = 2
        /\ \E i \in 1..2 : watch[a][w].snapshot[i] = PartyNode(a, w, "l")

\* C9 (Rule synthesis is serialized): at no time are two calls of
\* update_iptables of one agent under way, whichever watch and thread they
\* belong to.
C9_SynthesisSerialized ==
    \A a \in Agents : \A v, w \in DOMAIN watch[a] :
        (Synthesizing(a, v) /\ Synthesizing(a, w)) => v = w

\* _parse_entry accepts the member name.
Parses(entry) == ParseEntry(entry).error = NoError

WellFormed(snapshot) == SelectSeq(snapshot, Parses)

\* a snapshot with a member name that parses and one that fails to parse
Mixed(snapshot) ==
    /\ \E i \in 1..Len(snapshot) : Parses(snapshot[i])
    /\ \E i \in 1..Len(snapshot) : ~Parses(snapshot[i])

\* C10 (Malformed peer tolerated): for a snapshot with a member name that
\* parses and one that fails to parse, build keeps the well-formed members as
\* its bundles, writes the rule file with their rules, and main does not end
\* with the parse error.
C10_MalformedTolerated ==
    [][\A a \in Agents : \A w \in DOMAIN watch[a] :
        (/\ Mixed(watch[a][w].snapshot)
         /\ watch[a][w].state \in {"build", "gen"}
         /\ watch'[a][w].state # watch[a][w].state)
        => /\ pc'[a] # "failed"
           /\ watch[a][w].state = "build"
              => /\ watch'[a][w].state = "gen"
                 /\ watch'[a][w].bundles =
                        IpsFromEntries(WellFormed(watch[a][w].snapshot))
           /\ watch[a][w].state = "gen"
              => /\ watch'[a][w].state = "check"
                 /\ watch'[a][w].program =
                        GenRuleFile(IpsFromEntries(WellFormed(watch[a][w].snapshot)),
                                    is_vpc[a])
      ]_vars

\* C11 (Syntax-check gate): a synthesis whose iptables-restore -t run exits
\* non-zero ends there, iptables-restore is not run in apply mode for its
\* program, and the live rules stay as they are.
C11_SyntaxCheckGate ==
    [][\A a \in Agents : \A w \in DOMAIN watch[a] :
        /\ (/\ watch[a][w].state = "check"
            /\ watch'[a][w].state # "check"
            /\ ~watch'[a][w].syntax_ok)
           => /\ watch'[a][w].state = "idle"
              /\ live' = live
        /\ (watch[a][w].state = "apply" /\ ~watch[a][w].syntax_ok)
           => live' = live
      ]_vars

C13_SupervisorRestart ==
    [][zkerrors' # zkerrors =>
        \E a \in Agents :
            /\ pc[a] \in {"run", "join_remote", "watch"}
            /\ pc'[a] = "register"
            /\ \A e \in Realms : \A m \in ip_map'[e] : m.owner # a
            /\ watch'[a] = <<>>
      ]_vars

\* update_iptables for watch w of agent a has written its rule file.
Generated(a, w) ==
    w \in DOMAIN watch[a] /\ watch[a][w].state \in {"check", "apply"}

\* Where the per-peer rules start in the rule file: after the base text and
\* the open_80 and reject_all lines, and after "*nat".
FilterStart == 1 + (IF open_80 THEN 2 ELSE 0) + (IF reject_all THEN 1 ELSE 0)
NatStart(a, n) ==
    FilterStart + n + Len(ssh_whitelist) + (IF is_vpc[a] THEN 1 ELSE 0) + 2

\* C14 (Realm-based address selection): in every rule file written, the
\* ec2_whitelist ACCEPT rule of a peer has as source, and the peer's DNAT
\* rule as destination, the peer's private address when the peer's realm
\* field is the host's realm and its public address otherwise, and the DNAT
\* rule matches the peer's overlay address.
C14_RealmAddressSelection ==
    \A a \in Agents : \A w \in DOMAIN watch[a] :
        Generated(a, w) =>
            LET hosts == watch[a][w].snapshot
                self == IF is_vpc[a] THEN "1" ELSE "0"
            IN  \A i \in 1..Len(hosts) :
                    LET peer == ParseEntry(hosts[i])
                        addr == IF peer.is_vpc = self THEN peer.private_ip
                                                      ELSE peer.public_ip
                    IN  /\ watch[a][w].program[FilterStart + i] =
                               "-A ec2_whitelist -s " \o addr \o "  -j ACCEPT\n"
                        /\ watch[a][w].program[NatStart(a, Len(hosts)) + i] =
                               "-A OUTPUT -d " \o peer.overlay_ip
                               \o " -j DNAT --to-destination " \o addr \o "\n"

\* C14 witness: a host of each realm has written a rule file for a vpc peer
\* and an ec2 peer.
C14_Witness ==
    \E a \in Agents : \E w \in DOMAIN watch[a] :
        /\ Generated(a, w)
        /\ Len(watch[a][w].snapshot) = 2
        /\ ~is_vpc[a]
        /\ \E i, j \in 1..2 :
               /\ ParseEntry(watch[a][w].snapshot[i]).is_vpc = "1"
               /\ ParseEntry(watch[a][w].snapshot[j]).is_vpc = "0"

\* C15 (Parse rejection): a member name that is not of the form
\* <uuid>-<public>|<private>|<overlay>|<realm>, with exactly four fields,
\* three well-formed addresses and a realm of exactly 0 or 1, makes
\* InstanceIPBundle raise IPPatternMismatchError: build gets past parsing
\* only with names of that form, and a build that ends main ends it with
\* IPPatternMismatchError.
C15_ParseRejection ==
    LET Conforms(entry) ==
            /\ Len(entry) = 9
            /\ entry[1] \notin {"-", "|"}
            /\ entry[2] = "-"
            /\ entry[4] = "|" /\ entry[6] = "|" /\ entry[8] = "|"
            /\ entry[3] \in Ipv4Texts /\ entry[5] \in Ipv4Texts
            /\ entry[7] \in Ipv4Texts
            /\ entry[9] \in {"0", "1"}
    IN  \A a \in Agents :
            /\ pc[a] = "failed" => error[a] = "IPPatternMismatchError"
            /\ \A w \in DOMAIN watch[a] :
                   watch[a][w].state \in {"gen", "check", "apply"}
                   => \A i \in 1..Len(watch[a][w].snapshot) :
                          Conforms(watch[a][w].snapshot[i])

C18_FullReplacement ==
    [][\A a \in Agents : \A w \in DOMAIN watch[a] :
        (/\ watch[a][w].state = "build"
         /\ watch'[a][w].state # "build"
         /\ \A i \in 1..Len(watch[a][w].snapshot) :
                Parses(watch[a][w].snapshot[i]))
        => watch'[a][w].state = "gen"
      ]_vars

\* C17 (Claim confirmation): when the read after a successful create finds
\* a value that is not the candidate, _find_available_overlay_ip does not
\* return: it drops the candidate and goes back to _choose_overlay_ip.
C17_ClaimConfirmation ==
    [][\A a \in Agents :
        (/\ pc[a] = "get_created" /\ pc'[a] # "get_created"
         /\ Lease(a) \notin {NoNode, ip[a]})
        => /\ pc'[a] = "choose"
           /\ overlay_ip'[a] = overlay_ip[a]
      ]_vars

\* C19 (Bounded claim loop): retries never passes MAX_IP_TRIES; every pass
\* of the loop that tries the create counts one attempt; with the attempts
\* used up the call ends with NoAvailableIPsError, writing nothing; and the
\* requests after the create lead back to the loop test or out of the call.
C19_BoundedClaimLoop ==
    [][\A a \in Agents :
        /\ retries'[a] <= MAX_IP_TRIES
        /\ (pc[a] = "create" /\ pc'[a] # "create")
           => IF retries[a] >= MAX_IP_TRIES
              THEN /\ pc'[a] = "failed"
                   /\ error'[a] = "NoAvailableIPsError"
                   /\ UNCHANGED store
              ELSE /\ retries'[a] = retries[a] + 1
                   /\ pc'[a] \in {"ensure_idtoip", "get_existing", "get_created"}
        /\ (pc[a] \in {"ensure_idtoip", "get_existing", "get_created"}
            /\ pc'[a] # pc[a])
           => \/ pc'[a] = "create" /\ retries'[a] = retries[a]
              \/ pc'[a] = "set_map" /\ overlay_ip'[a] = Lease(a)
      ]_vars

\* C19 witness: the call has ended with NoAvailableIPsError after
\* MAX_IP_TRIES attempts, with free addresses in the pool.
C19_Witness ==
    \E a \in Agents :
        /\ pc[a] = "failed" /\ error[a] = "NoAvailableIPsError"
        /\ retries[a] = MAX_IP_TRIES
        /\ AvailableIps(a) # {}

\* C20 (One member per live host): under ip_map of either ensemble no two
\* children belong to the same agent process.
C20_OneMemberPerHost ==
    \A e \in Realms : \A m, n \in ip_map[e] :
        m.owner = n.owner => m = n

====
